---- MODULE Spec2Model ----
(***************************************************************************)
(* Model of launch.py, the local launcher of Gold Predict.                 *)
(*                                                                         *)
(* Text is a sequence of symbols.  A symbol is one character (" ", "\n",   *)
(* "=", "#", "A", "y", ...) or an indivisible word ("DATABASE_URL",        *)
(* "postgres://x"); a substring test for a word is a test for the symbol.  *)
(*                                                                         *)
(* The launcher is single threaded; an action runs main() from one         *)
(* blocking call (a child process, a read of standard input) to the next.  *)
(* SIGINT is modelled where main() handles it (around `npm start`).        *)
(***************************************************************************)
EXTENDS Integers, Sequences, FiniteSets, TLC

VARIABLES
    pc,         \* position of main(): see PCs
    fs,         \* what the launcher finds on the machine (path and files)
    env0,       \* the inherited process environment, os.environ at start
    env,        \* os.environ: function from key text to value text
    procs,      \* child processes spawned so far, in order
    out,        \* messages printed so far, in order
    reads,      \* prompts of the input() calls that have returned, in order
    prereq,     \* return value of check_prerequisites(): "none", "true", "false"
    missing,    \* the list `missing` built by check_prerequisites()
    reply,      \* the line typed at the rebuild prompt
    opened,     \* files opened for reading so far, in order
    envLoaded,  \* TRUE once load_env() has returned
    exitStatus  \* {} while the launcher runs, {n} once it exited with status n

vars == <<pc, fs, env0, env, procs, out, reads, prereq, missing, reply, opened,
          envLoaded, exitStatus>>

---------------------------------------------------------------------------
(* Bounds *)
MaxFileLen == 6     \* symbols in the .env file of SpecEnv
MaxReplyLen == 2    \* symbols in the reply to the rebuild prompt
MaxExitCode == 1    \* child exit statuses are 0..MaxExitCode

---------------------------------------------------------------------------
(* Text helpers: str.strip, str.startswith, `in`, str.split(sep, 1),       *)
(* str.lower and the line iteration of a text file.                        *)

Whitespace == {" ", "\n"}

RECURSIVE lstrip(_)
lstrip(s) ==
    IF s = <<>> THEN <<>>
    ELSE IF Head(s) \in Whitespace THEN lstrip(Tail(s)) ELSE s

RECURSIVE rstrip(_)
rstrip(s) ==
    IF s = <<>> THEN <<>>
    ELSE IF s[Len(s)] \in Whitespace THEN rstrip(SubSeq(s, 1, Len(s) - 1)) ELSE s

strip(s) == rstrip(lstrip(s))

startswith(s, c) == Len(s) >= 1 /\ s[1] = c

contains(s, c) == \E i \in 1..Len(s) : s[i] = c

RECURSIVE find(_, _, _)
find(s, c, i) ==
    IF i > Len(s) THEN 0
    ELSE IF s[i] = c THEN i ELSE find(s, c, i + 1)

RECURSIVE rfind(_, _, _)
rfind(s, c, i) ==
    IF i < 1 THEN 0
    ELSE IF s[i] = c THEN i ELSE rfind(s, c, i - 1)

\* mutant: line.rsplit('=', 1), a split on the last '='
split_last(s) ==
    LET i == rfind(s, "=", Len(s))
    IN  <<SubSeq(s, 1, i - 1), SubSeq(s, i + 1, Len(s))>>

\* line.split('=', 1) of a line that contains '=': <<before, after>>
split_first(s) ==
    LET i == find(s, "=", 1)
    IN  <<SubSeq(s, 1, i - 1), SubSeq(s, i + 1, Len(s))>>

lower_char(c) == IF c = "Y" THEN "y" ELSE IF c = "N" THEN "n" ELSE c

lower(s) == [i \in 1..Len(s) |-> lower_char(s[i])]

\* `for line in f`: the lines of the content, each with its "\n" if it has one
RECURSIVE readlines(_)
readlines(content) ==
    IF content = <<>> THEN <<>>
    ELSE LET i == find(content, "\n", 1)
         IN  IF i = 0 THEN <<content>>
             ELSE <<SubSeq(content, 1, i)>> \o readlines(SubSeq(content, i + 1, Len(content)))

---------------------------------------------------------------------------
(* os.environ *)

EmptyEnv == [k \in {} |-> <<>>]

\* mutant: os.environ.setdefault(key, value), the inherited value wins
environ_setdefault(e, key, value) ==
    IF key = <<>>
    THEN [env |-> e, raised |-> TRUE]
    ELSE [env |-> [k \in DOMAIN e \cup {key} |-> IF k \in DOMAIN e THEN e[k] ELSE value],
          raised |-> FALSE]

\* os.environ[key] = value; putenv refuses an empty name, and the error is
\* not caught anywhere in launch.py
environ_set(e, key, value) ==
    IF key = <<>>
    THEN [env |-> e, raised |-> TRUE]
    ELSE [env |-> [k \in DOMAIN e \cup {key} |-> IF k = key THEN value ELSE e[k]],
          raised |-> FALSE]

\* os.environ.get(key, default)
environ_get(e, key, default) == IF key \in DOMAIN e THEN e[key] ELSE default

\* the test of line 66 on a stripped line
is_assignment(line) == line # <<>> /\ ~startswith(line, "#") /\ contains(line, "=")

\* the body of the loop of load_env() on the lines from index i on
RECURSIVE load_lines(_, _, _)
load_lines(lines, i, e) ==
    IF i > Len(lines) THEN [env |-> e, raised |-> FALSE]
    ELSE LET line == strip(lines[i])
         IN  IF is_assignment(line)
             THEN LET kv == split_first(line)
                      r  == environ_set(e, strip(kv[1]), strip(kv[2]))
                  IN  IF r.raised THEN r ELSE load_lines(lines, i + 1, r.env)
             ELSE load_lines(lines, i + 1, e)

load_env(e, file) ==
    IF file.exists
    THEN load_lines(readlines(file.content), 1, e)
    ELSE [env |-> e, raised |-> FALSE]

---------------------------------------------------------------------------
(* Child processes, messages *)

RCs == 0..MaxExitCode

NodeVersion == "node --version"
NpmVersion  == "npm --version"
NpmInstall  == "npm install"
NpmBuild    == "npm run build"
SchemaPush  == "npx drizzle-kit push"
NpmStart    == "npm start"

Installing  == "Installing dependencies"
Building    == "Building the application"
Rebuilding  == "Rebuilding the application"
SchemaSetup == "Setting up database schema"
Launching   == "LAUNCHING GOLD PREDICT"

PressEnterPrompt == "Press Enter to exit..."
RebuildPrompt    == "Do you want to rebuild? (y/N): "

Running(cmd, desc) == [cmd |-> cmd, desc |-> desc, state |-> "running", rc |-> 0]
Exited(cmd, desc, rc) == [cmd |-> cmd, desc |-> desc, state |-> "exited", rc |-> rc]

\* the last child, which is the one the launcher waits for, exits with rc
child_exit(p, rc) == [p EXCEPT ![Len(p)] = [@ EXCEPT !.state = "exited", !.rc = rc]]

\* subprocess.run() kills the child when KeyboardInterrupt reaches it
child_kill(p) == [p EXCEPT ![Len(p)] = [@ EXCEPT !.state = "killed"]]

Msg(tag, arg) == <<tag, arg>>

---------------------------------------------------------------------------
(* run_command: the banner before the child, the verdict after it *)

run_command_banner(desc) == <<Msg("BANNER", desc)>>

\* mutant: the exit status is not looked at
run_command_always_ok(rc) == TRUE

run_command_ok(rc) == rc = 0

run_command_report(desc, rc) ==
    IF rc # 0 THEN <<Msg("ERROR_EXIT", <<desc, rc>>)>> ELSE <<>>

---------------------------------------------------------------------------
(* check_prerequisites *)

RequiredVars ==
    <<"DATABASE_URL", "SESSION_SECRET", "STRIPE_LIVE_PUBLISHABLE_KEY",
      "STRIPE_LIVE_SECRET_KEY">>

RECURSIVE missing_vars(_, _)
missing_vars(content, i) ==
    IF i > Len(RequiredVars) THEN <<>>
    ELSE (IF ~contains(content, RequiredVars[i]) THEN <<RequiredVars[i]>> ELSE <<>>)
         \o missing_vars(content, i + 1)

\* mutant: a missing variable fails the check
env_check_strict(m) == m = <<>>

\* lines 53-58: the warning is printed and the function returns True
env_check_result(m) == TRUE

\* mutant: npm is probed before it is looked up on the path
check_prerequisites_probe_first(f, rcNode, rcNpm) ==
    IF ~f.node
    THEN [ret |-> FALSE, procs |-> <<>>, opened |-> <<>>, missing |-> <<>>,
          out |-> <<Msg("HEADER", <<>>), Msg("ERROR_NODE", <<>>)>>]
    ELSE IF ~f.npm
    THEN [ret |-> FALSE,
          procs |-> <<Exited(NodeVersion, "", rcNode), Exited(NpmVersion, "", rcNpm)>>,
          opened |-> <<>>, missing |-> <<>>,
          out |-> <<Msg("HEADER", <<>>), Msg("NODE_VERSION", <<>>),
                    Msg("ERROR_NPM", <<>>)>>]
    ELSE IF ~f.env.exists
    THEN [ret |-> FALSE,
          procs |-> <<Exited(NodeVersion, "", rcNode), Exited(NpmVersion, "", rcNpm)>>,
          opened |-> <<>>, missing |-> <<>>,
          out |-> <<Msg("HEADER", <<>>), Msg("NODE_VERSION", <<>>),
                    Msg("NPM_VERSION", <<>>), Msg("ERROR_ENV", <<>>)>>]
    ELSE LET m == missing_vars(f.env.content, 1)
         IN  [ret |-> env_check_result(m),
              procs |-> <<Exited(NodeVersion, "", rcNode), Exited(NpmVersion, "", rcNpm)>>,
              opened |-> <<".env">>, missing |-> m,
              out |-> <<Msg("HEADER", <<>>), Msg("NODE_VERSION", <<>>),
                        Msg("NPM_VERSION", <<>>), Msg("ENV_FOUND", <<>>)>>
                      \o (IF m # <<>> THEN <<Msg("WARNING", m)>> ELSE <<>>)
                      \o <<Msg("PREREQ_OK", <<>>)>>]

\* f is the machine, rcNode and rcNpm the exit statuses of the version probes.
\* The result: the return value, the children spawned, the files opened, the
\* list `missing` and the messages printed.
check_prerequisites(f, rcNode, rcNpm) ==
    IF ~f.node
    THEN [ret |-> FALSE, procs |-> <<>>, opened |-> <<>>, missing |-> <<>>,
          out |-> <<Msg("HEADER", <<>>), Msg("ERROR_NODE", <<>>)>>]
    ELSE IF ~f.npm
    THEN [ret |-> FALSE, procs |-> <<Exited(NodeVersion, "", rcNode)>>,
          opened |-> <<>>, missing |-> <<>>,
          out |-> <<Msg("HEADER", <<>>), Msg("NODE_VERSION", <<>>),
                    Msg("ERROR_NPM", <<>>)>>]
    ELSE IF ~f.env.exists
    THEN [ret |-> FALSE,
          procs |-> <<Exited(NodeVersion, "", rcNode), Exited(NpmVersion, "", rcNpm)>>,
          opened |-> <<>>, missing |-> <<>>,
          out |-> <<Msg("HEADER", <<>>), Msg("NODE_VERSION", <<>>),
                    Msg("NPM_VERSION", <<>>), Msg("ERROR_ENV", <<>>)>>]
    ELSE LET m == missing_vars(f.env.content, 1)
         IN  [ret |-> env_check_result(m),
              procs |-> <<Exited(NodeVersion, "", rcNode), Exited(NpmVersion, "", rcNpm)>>,
              opened |-> <<".env">>, missing |-> m,
              out |-> <<Msg("HEADER", <<>>), Msg("NODE_VERSION", <<>>),
                        Msg("NPM_VERSION", <<>>), Msg("ENV_FOUND", <<>>)>>
                      \o (IF m # <<>> THEN <<Msg("WARNING", m)>> ELSE <<>>)
                      \o <<Msg("PREREQ_OK", <<>>)>>]

---------------------------------------------------------------------------
(* main: one action from each blocking call to the next *)

PCs == {"main", "checked", "loaded", "install_running", "build_running", "prompt",
        "rebuild_running", "schema_running", "start_running", "pause", "exited"}

\* main() line 71-73
CheckPrerequisites ==
    /\ pc = "main"
    /\ \E rcNode \in RCs, rcNpm \in RCs :
         LET r == check_prerequisites(fs, rcNode, rcNpm)
         IN  /\ procs' = procs \o r.procs
             /\ opened' = opened \o r.opened
             /\ out' = out \o r.out
             /\ missing' = r.missing
             /\ prereq' = IF r.ret THEN "true" ELSE "false"
             /\ pc' = IF r.ret THEN "checked" ELSE "pause"
    /\ UNCHANGED <<fs, env0, env, reads, reply, envLoaded, exitStatus>>

\* main() line 75.  An exception that leaves load_env() leaves main(): the
\* interpreter prints the traceback and exits with status 1.
LoadEnv ==
    /\ pc = "checked"
    /\ LET r == load_env(env, fs.env)
       IN  /\ env' = r.env
           /\ opened' = IF fs.env.exists THEN Append(opened, ".env") ELSE opened
           /\ IF r.raised
              THEN /\ pc' = "exited"
                   /\ exitStatus' = {1}
                   /\ out' = Append(out, Msg("TRACEBACK", <<>>))
                   /\ envLoaded' = FALSE
              ELSE /\ pc' = "loaded"
                   /\ envLoaded' = TRUE
                   /\ UNCHANGED <<exitStatus, out>>
    /\ UNCHANGED <<fs, env0, procs, reads, prereq, missing, reply>>

\* the fatal path: the failure was printed, main() blocks in input()
Fatal(o, p) ==
    /\ pc' = "pause"
    /\ out' = o
    /\ procs' = p

\* main() lines 101-104 up to the blocking subprocess.run
SchemaSync(o, p) ==
    /\ pc' = "schema_running"
    /\ out' = Append(o, Msg("BANNER", SchemaSetup))
    /\ procs' = Append(p, Running(SchemaPush, SchemaSetup))

\* main() lines 88-94 up to the next blocking call
BuildCheck(o, p) ==
    IF ~fs.dist
    THEN /\ pc' = "build_running"
         /\ out' = o \o run_command_banner(Building)
         /\ procs' = Append(p, Running(NpmBuild, Building))
    ELSE /\ pc' = "prompt"
         /\ out' = Append(o, Msg("BUILD_EXISTS", <<>>))
         /\ procs' = p

\* main() lines 80-86
InstallStep ==
    /\ pc = "loaded"
    /\ IF ~fs.node_modules
       THEN /\ pc' = "install_running"
            /\ out' = out \o run_command_banner(Installing)
            /\ procs' = Append(procs, Running(NpmInstall, Installing))
       ELSE BuildCheck(Append(out, Msg("DEPS_EXIST", <<>>)), procs)
    /\ UNCHANGED <<fs, env0, env, reads, prereq, missing, reply, opened, envLoaded,
                   exitStatus>>

\* mutant: a failed install is tried again
InstallExitRetry(rc) ==
    /\ pc = "install_running"
    /\ IF run_command_ok(rc)
       THEN BuildCheck(out, child_exit(procs, rc))
       ELSE /\ pc' = "install_running"
            /\ out' = out \o run_command_report(Installing, rc)
                          \o run_command_banner(Installing)
            /\ procs' = Append(child_exit(procs, rc), Running(NpmInstall, Installing))
    /\ UNCHANGED <<fs, env0, env, reads, prereq, missing, reply, opened, envLoaded,
                   exitStatus>>

\* `npm install` exits: run_command returns, main() lines 82-84 and on
InstallExit(rc) ==
    /\ pc = "install_running"
    /\ IF run_command_ok(rc)
       THEN BuildCheck(out, child_exit(procs, rc))
       ELSE Fatal(out \o run_command_report(Installing, rc), child_exit(procs, rc))
    /\ UNCHANGED <<fs, env0, env, reads, prereq, missing, reply, opened, envLoaded,
                   exitStatus>>

\* `npm run build` exits: main() lines 90-92 and on
BuildExit(rc) ==
    /\ pc = "build_running"
    /\ IF run_command_ok(rc)
       THEN SchemaSync(out, child_exit(procs, rc))
       ELSE Fatal(out \o run_command_report(Building, rc), child_exit(procs, rc))
    /\ UNCHANGED <<fs, env0, env, reads, prereq, missing, reply, opened, envLoaded,
                   exitStatus>>

\* mutant: the reply is not lower-cased
wants_rebuild_case_sensitive(r) == strip(r) = <<"y">>

\* main() lines 95-96: the reply decides
wants_rebuild(r) == lower(strip(r)) = <<"y">>

ReplyChars == {"y", "Y", "n", " "}
Replies == UNION {[1..n -> ReplyChars] : n \in 0..MaxReplyLen}

\* the rebuild prompt is answered: main() lines 95-97 and on
RebuildReply(r) ==
    /\ pc = "prompt"
    /\ reply' = r
    /\ reads' = Append(reads, RebuildPrompt)
    /\ IF wants_rebuild(r)
       THEN /\ pc' = "rebuild_running"
            /\ out' = out \o run_command_banner(Rebuilding)
            /\ procs' = Append(procs, Running(NpmBuild, Rebuilding))
       ELSE SchemaSync(out, procs)
    /\ UNCHANGED <<fs, env0, env, prereq, missing, opened, envLoaded, exitStatus>>

\* the rebuild exits: main() lines 97-99 and on
RebuildExit(rc) ==
    /\ pc = "rebuild_running"
    /\ IF run_command_ok(rc)
       THEN SchemaSync(out, child_exit(procs, rc))
       ELSE Fatal(out \o run_command_report(Rebuilding, rc), child_exit(procs, rc))
    /\ UNCHANGED <<fs, env0, env, reads, prereq, missing, reply, opened, envLoaded,
                   exitStatus>>

\* mutant: the schema push goes through the fatal path like the build
SchemaExitChecked(rc) ==
    /\ pc = "schema_running"
    /\ IF rc = 0
       THEN /\ pc' = "start_running"
            /\ out' = out \o <<Msg("BANNER", Launching),
                               Msg("URL", environ_get(env, <<"PORT">>, <<"5000">>))>>
            /\ procs' = Append(child_exit(procs, rc), Running(NpmStart, Launching))
       ELSE Fatal(out \o run_command_report(SchemaSetup, rc), child_exit(procs, rc))
    /\ UNCHANGED <<fs, env0, env, reads, prereq, missing, reply, opened, envLoaded,
                   exitStatus>>

\* `drizzle-kit push` exits with any status: main() lines 104-114
SchemaExit(rc) ==
    /\ pc = "schema_running"
    /\ pc' = "start_running"
    /\ out' = out \o <<Msg("BANNER", Launching),
                       Msg("URL", environ_get(env, <<"PORT">>, <<"5000">>))>>
    /\ procs' = Append(child_exit(procs, rc), Running(NpmStart, Launching))
    /\ UNCHANGED <<fs, env0, env, reads, prereq, missing, reply, opened, envLoaded,
                   exitStatus>>

\* mutant: a failed start goes through the fatal path
StartExitChecked(rc) ==
    /\ pc = "start_running"
    /\ procs' = child_exit(procs, rc)
    /\ IF rc = 0
       THEN /\ pc' = "exited"
            /\ exitStatus' = {0}
       ELSE /\ pc' = "pause"
            /\ UNCHANGED exitStatus
    /\ UNCHANGED <<fs, env0, env, out, reads, prereq, missing, reply, opened,
                   envLoaded>>

\* `npm start` exits with any status: main() returns, the interpreter exits 0
StartExit(rc) ==
    /\ pc = "start_running"
    /\ pc' = "exited"
    /\ exitStatus' = {0}
    /\ procs' = child_exit(procs, rc)
    /\ UNCHANGED <<fs, env0, env, out, reads, prereq, missing, reply, opened,
                   envLoaded>>

\* mutant: no try/except around the start command
InterruptUncaught ==
    /\ pc = "start_running"
    /\ pc' = "exited"
    /\ exitStatus' = {130}
    /\ procs' = child_kill(procs)
    /\ out' = Append(out, Msg("TRACEBACK", <<>>))
    /\ UNCHANGED <<fs, env0, env, reads, prereq, missing, reply, opened, envLoaded>>

\* SIGINT while `npm start` runs: main() lines 115-116, then main() returns
Interrupt ==
    /\ pc = "start_running"
    /\ pc' = "exited"
    /\ exitStatus' = {0}
    /\ procs' = child_kill(procs)
    /\ out' = Append(out, Msg("GOODBYE", <<>>))
    /\ UNCHANGED <<fs, env0, env, reads, prereq, missing, reply, opened, envLoaded>>

\* a line arrives at input("Press Enter to exit..."): sys.exit(1)
PressEnter ==
    /\ pc = "pause"
    /\ pc' = "exited"
    /\ exitStatus' = {1}
    /\ reads' = Append(reads, PressEnterPrompt)
    /\ UNCHANGED <<fs, env0, env, procs, out, prereq, missing, reply, opened,
                   envLoaded>>

---------------------------------------------------------------------------
(* The launcher on a machine: Spec *)

MainFiles ==
    { <<>>,
      <<"DATABASE_URL", "=", "postgres://x", "\n", "SESSION_SECRET", "=", "abc", "\n",
        "PORT", "=", "8080", "\n", "#", " ", "note">>,
      <<"DATABASE_URL", "=", "x", "\n", "SESSION_SECRET", "=", "s", "\n",
        "STRIPE_LIVE_PUBLISHABLE_KEY", "=", "pk", "\n",
        "STRIPE_LIVE_SECRET_KEY", "=", "sk", "\n">>,
      <<"#", "DATABASE_URL", "=", "x", "\n", " ", "PORT", " ", "=", " ", "1", "=", "2", " ">>,
      <<"SESSION_SECRET", "=", "abc", "\n", "=", "8080", "\n", "PORT", "=", "1">> }

MainEnvs == { EmptyEnv, (<<"PORT">> :> <<"3000">>) @@ (<<"HOME">> :> <<"/root">>) }

Machines ==
    { [node |-> n, npm |-> m, env |-> e, node_modules |-> nm, dist |-> d] :
        n \in BOOLEAN, m \in BOOLEAN, nm \in BOOLEAN, d \in BOOLEAN,
        e \in {[exists |-> FALSE, content |-> <<>>]}
              \cup {[exists |-> TRUE, content |-> c] : c \in MainFiles} }

Init ==
    /\ pc = "main"
    /\ fs \in Machines
    /\ env0 \in MainEnvs
    /\ env = env0
    /\ procs = <<>>
    /\ out = <<>>
    /\ reads = <<>>
    /\ prereq = "none"
    /\ missing = <<>>
    /\ reply = <<>>
    /\ opened = <<>>
    /\ envLoaded = FALSE
    /\ exitStatus = {}

Next ==
    \/ CheckPrerequisites
    \/ LoadEnv
    \/ InstallStep
    \/ \E rc \in RCs : InstallExit(rc)
    \/ \E rc \in RCs : BuildExit(rc)
    \/ \E r \in Replies : RebuildReply(r)
    \/ \E rc \in RCs : RebuildExit(rc)
    \/ \E rc \in RCs : SchemaExit(rc)
    \/ \E rc \in RCs : StartExit(rc)
    \/ Interrupt
    \/ PressEnter

Spec == Init /\ [][Next]_vars

---------------------------------------------------------------------------
(* load_env() on any small file: SpecEnv *)

EnvChars == {"A", "=", "#", " ", "\n"}
EnvFileContents == UNION {[1..n -> EnvChars] : n \in 0..MaxFileLen}

EnvFiles ==
    {[exists |-> FALSE, content |-> <<>>]}
    \cup {[exists |-> TRUE, content |-> c] : c \in EnvFileContents}

InheritedEnvs == { EmptyEnv, (<<"A">> :> <<"old">>) @@ (<<"HOME">> :> <<"/root">>) }

\* main() is about to call load_env(): check_prerequisites() found the file
\* (which may be gone by the time load_env() looks for it)
InitEnv ==
    /\ pc = "checked"
    /\ \E f \in EnvFiles :
         fs = [node |-> TRUE, npm |-> TRUE, env |-> f, node_modules |-> TRUE,
               dist |-> TRUE]
    /\ env0 \in InheritedEnvs
    /\ env = env0
    /\ LET r == check_prerequisites([fs EXCEPT !.env.exists = TRUE], 0, 0)
       IN  /\ procs = r.procs
           /\ out = r.out
           /\ missing = r.missing
           /\ opened = r.opened
    /\ reads = <<>>
    /\ prereq = "true"
    /\ reply = <<>>
    /\ envLoaded = FALSE
    /\ exitStatus = {}

NextEnv == LoadEnv

SpecEnv == InitEnv /\ [][NextEnv]_vars

---------------------------------------------------------------------------
(* Vocabulary of the properties *)

Max(S) == CHOOSE x \in S : \A y \in S : y <= x
Min(S) == CHOOSE x \in S : \A y \in S : x <= y

Last(q) == q[Len(q)]

ProcIdx == 1..Len(procs)

FatalDescs == {Installing, Building, Rebuilding}

Failed(i) == procs[i].state = "exited" /\ procs[i].rc # 0

\* a fatal step has failed
FatalStepFailed ==
    \/ prereq = "false"
    \/ \E i \in ProcIdx : procs[i].desc \in FatalDescs /\ Failed(i)

Printed(tag) == \E i \in 1..Len(out) : out[i][1] = tag

HasRead(prompt) == \E i \in 1..Len(reads) : reads[i] = prompt

Invoked(cmd) == \E i \in ProcIdx : procs[i].cmd = cmd

InvokedAs(desc) == \E i \in ProcIdx : procs[i].desc = desc

\* text without its surrounding whitespace, said without recursion
NonBlank(s) == {i \in 1..Len(s) : s[i] \notin Whitespace}
Trimmed(s) == IF NonBlank(s) = {} THEN <<>> ELSE SubSeq(s, Min(NonBlank(s)), Max(NonBlank(s)))

---------------------------------------------------------------------------
(* C1: once a fatal step has failed (check_prerequisites returned False, or *)
(* install, build or rebuild exited nonzero) the launcher is blocked in the *)
(* "Press Enter to exit" read or has exited with status 1 after that read   *)
(* returned, the failed command is the last child ever spawned, and neither *)
(* the schema push nor the start command has been invoked.                  *)
C1_FatalStepPausesThenExits1 ==
    FatalStepFailed =>
        /\ pc \in {"pause", "exited"}
        /\ pc = "pause" => exitStatus = {} /\ ~HasRead(PressEnterPrompt)
        /\ pc = "exited" =>
              /\ exitStatus = {1}
              /\ reads # <<>> /\ Last(reads) = PressEnterPrompt
        /\ ~Invoked(SchemaPush) /\ ~Invoked(NpmStart)
        /\ \A i \in ProcIdx : procs[i].desc \in FatalDescs /\ Failed(i) => i = Len(procs)

C1_Witness ==
    /\ pc = "exited" /\ exitStatus = {1}
    /\ \E i \in ProcIdx : procs[i].desc = Installing /\ Failed(i)
    /\ Last(reads) = PressEnterPrompt

---------------------------------------------------------------------------
(* C2: once the schema push has exited, with whatever status, the start     *)
(* command is the next child spawned, the launcher never enters the pause   *)
(* and never exits with a status other than 0.                              *)
C2_SchemaStatusIgnored ==
    \A i \in ProcIdx :
        procs[i].cmd = SchemaPush /\ procs[i].state = "exited" =>
            /\ i < Len(procs) /\ procs[i + 1].cmd = NpmStart
            /\ pc \in {"start_running", "exited"}
            /\ ~HasRead(PressEnterPrompt)
            /\ exitStatus \subseteq {0}

C2_Witness ==
    /\ pc = "start_running"
    /\ \E i \in ProcIdx : procs[i].cmd = SchemaPush /\ Failed(i)
    /\ Last(procs).cmd = NpmStart /\ Last(procs).state = "running"

---------------------------------------------------------------------------
(* C3 as stated: no command other than the schema push has failed in a run  *)
(* that completed with status 0.                                            *)
C3_EveryOtherCommandFatal ==
    \A i \in ProcIdx :
        procs[i].cmd # SchemaPush /\ Failed(i) => ~(pc = "exited" /\ exitStatus = {0})

(* C3 amended: the commands whose failure is fatal are install, build and   *)
(* rebuild.  A failure of one of them puts the launcher on the fatal path;  *)
(* the pause is entered for no other reason than a missing prerequisite or  *)
(* such a failure; and once the start command has exited, with whatever     *)
(* status, the launcher has completed with status 0.                        *)
C3_FatalCommandsAreInstallAndBuild ==
    /\ \A i \in ProcIdx :
         procs[i].desc \in FatalDescs /\ Failed(i) =>
            pc \in {"pause", "exited"} /\ exitStatus \subseteq {1}
    /\ pc = "pause" =>
         \/ ~(fs.node /\ fs.npm /\ fs.env.exists)
         \/ Last(procs).desc \in FatalDescs /\ Failed(Len(procs))
    /\ \A i \in ProcIdx :
         procs[i].cmd = NpmStart /\ procs[i].state = "exited" =>
            pc = "exited" /\ exitStatus = {0}

C3_Witness ==
    /\ pc = "exited" /\ exitStatus = {0}
    /\ Last(procs).cmd = NpmStart /\ Failed(Len(procs))
    /\ \E i \in ProcIdx : procs[i].cmd = NodeVersion /\ Failed(i)

---------------------------------------------------------------------------
(* C6: check_prerequisites() returns True exactly when node and npm resolve *)
(* and the .env file exists; it returns (False, with no traceback) when one *)
(* of them is absent, and True whatever the number of required names the    *)
(* file lacks.                                                              *)
C6_PrerequisitesVerdict ==
    prereq # "none" =>
        /\ prereq = "true" <=> (fs.node /\ fs.npm /\ fs.env.exists)
        /\ prereq = "false" => ~Printed("TRACEBACK") /\ ~Printed("PREREQ_OK")
        /\ prereq = "true" =>
              /\ Printed("PREREQ_OK")
              /\ Printed("WARNING") <=> missing # <<>>
              /\ \A j \in 1..Len(RequiredVars) :
                    (\E k \in 1..Len(missing) : missing[k] = RequiredVars[j])
                    <=> ~contains(fs.env.content, RequiredVars[j])

C6_Witness ==
    /\ prereq = "true"
    /\ Len(missing) = 2
    /\ pc = "checked"

---------------------------------------------------------------------------
(* C7 as stated: when node or npm is missing, check_prerequisites() has     *)
(* returned False having spawned no child, opened no file and changed no    *)
(* environment variable.                                                    *)
C7_MissingExecutableNoEffect ==
    prereq = "false" /\ (~fs.node \/ ~fs.npm) =>
        procs = <<>> /\ opened = <<>> /\ env = env0

(* C7 amended: when node is missing nothing was spawned, opened or set;     *)
(* when node resolves and npm is missing, exactly one child was spawned,    *)
(* `node --version`, and still no file was opened and no variable set.      *)
C7_MissingExecutableEffects ==
    /\ prereq = "false" /\ ~fs.node =>
          procs = <<>> /\ opened = <<>> /\ env = env0
    /\ prereq = "false" /\ fs.node /\ ~fs.npm =>
          /\ Len(procs) = 1 /\ procs[1].cmd = NodeVersion /\ procs[1].state = "exited"
          /\ opened = <<>> /\ env = env0

C7_Witness ==
    /\ prereq = "false" /\ fs.node /\ ~fs.npm
    /\ pc = "pause"
    /\ Len(procs) = 1

---------------------------------------------------------------------------
(* C8 as stated and amended.  The install step is decided once load_env()   *)
(* has returned and main() has moved on; the build step is decided once     *)
(* the dist check was reached and, when dist exists, the prompt answered.   *)
InstallDecided == envLoaded /\ pc # "loaded"

BuildReached ==
    /\ InstallDecided
    /\ pc # "install_running"
    /\ ~\E i \in ProcIdx : procs[i].desc = Installing /\ Failed(i)

BuildDecided == BuildReached /\ pc # "prompt"

PromptShown == pc = "prompt" \/ HasRead(RebuildPrompt)

C8_Steps(yes) ==
    /\ InstallDecided => (Invoked(NpmInstall) <=> ~fs.node_modules)
    /\ InstallDecided /\ fs.node_modules => BuildReached
    /\ BuildDecided => (Invoked(NpmBuild) <=> (~fs.dist \/ (fs.dist /\ yes)))
    /\ BuildDecided /\ fs.dist /\ reply = <<>> => ~Invoked(NpmBuild)
    /\ PromptShown <=> BuildReached /\ fs.dist

(* C8 as stated: install runs iff node_modules is absent; build runs iff    *)
(* dist is absent, or dist exists and the reply is `y` or `Y`; the prompt   *)
(* is shown only when dist exists.                                          *)
C8_StepsRunWhenTargetAbsent == C8_Steps(reply \in {<<"y">>, <<"Y">>})

(* C8 amended: the same, with the reply compared after its surrounding      *)
(* whitespace is removed.                                                   *)
C8_StepsRunWhenTargetAbsentTrimmed == C8_Steps(Trimmed(reply) \in {<<"y">>, <<"Y">>})

C8_Witness ==
    /\ fs.node_modules /\ fs.dist
    /\ reply = <<"Y">>
    /\ InvokedAs(Rebuilding) /\ ~Invoked(NpmInstall)
    /\ pc = "start_running"

---------------------------------------------------------------------------
(* C9: while the start command runs the launcher is blocked and has not     *)
(* exited; once it has exited the launcher has completed with status 0;     *)
(* once it was interrupted the launcher has printed the farewell as its     *)
(* last message, with no traceback, and has exited with status 0.           *)
C9_StartBlocksInterruptExits0 ==
    \A i \in ProcIdx :
        procs[i].cmd = NpmStart =>
            /\ i = Len(procs)
            /\ procs[i].state = "running" => pc = "start_running" /\ exitStatus = {}
            /\ procs[i].state = "exited" => pc = "exited" /\ exitStatus = {0}
            /\ procs[i].state = "killed" =>
                  /\ pc = "exited" /\ exitStatus = {0}
                  /\ Last(out)[1] = "GOODBYE" /\ ~Printed("TRACEBACK")

C9_Witness ==
    /\ pc = "exited" /\ exitStatus = {0}
    /\ procs # <<>> /\ Last(procs).cmd = NpmStart /\ Last(procs).state = "killed"
    /\ Last(out)[1] = "GOODBYE"

---------------------------------------------------------------------------
(* C10: the orchestrated commands are spawned in the order install, build   *)
(* or rebuild, schema push, start, each at most once and never build and    *)
(* rebuild both; a child is spawned only after the previous one is over;    *)
(* none is spawned before check_prerequisites() returned True and           *)
(* load_env() returned; start is spawned only after the schema push exited. *)
Rank(cmd) ==
    IF cmd = NpmInstall THEN 1
    ELSE IF cmd = NpmBuild THEN 2
    ELSE IF cmd = SchemaPush THEN 3
    ELSE IF cmd = NpmStart THEN 4
    ELSE 0

Orchestrated(i) == Rank(procs[i].cmd) > 0

C10_FixedOrderOneAtATime ==
    /\ \A i, j \in ProcIdx :
         i < j /\ Orchestrated(j) => Rank(procs[i].cmd) < Rank(procs[j].cmd)
    /\ \A i \in ProcIdx : i < Len(procs) => procs[i].state # "running"
    /\ \A i \in ProcIdx : Orchestrated(i) => prereq = "true" /\ envLoaded
    /\ \A j \in ProcIdx :
         procs[j].cmd = NpmStart =>
            j > 1 /\ procs[j - 1].cmd = SchemaPush /\ procs[j - 1].state = "exited"

C10_Witness ==
    /\ pc = "exited"
    /\ Invoked(NpmInstall) /\ InvokedAs(Rebuilding) /\ Invoked(SchemaPush)
    /\ Invoked(NpmStart)
    /\ Cardinality({i \in ProcIdx : Orchestrated(i)}) = 4

---------------------------------------------------------------------------
(* Vocabulary of the .env file: a line is named by the position where it    *)
(* starts; it is effective when, trimmed, it is not empty, does not start   *)
(* with "#" and holds an "=".                                               *)
Content == IF fs.env.exists THEN fs.env.content ELSE <<>>

Newlines == {i \in 1..Len(Content) : Content[i] = "\n"}

LineStarts ==
    IF Content = <<>> THEN {}
    ELSE {1} \cup {i + 1 : i \in {n \in Newlines : n < Len(Content)}}

LineAt(a) == SubSeq(Content, a, Min({n \in Newlines : n >= a} \cup {Len(Content)}))

FirstEq(t) == Min({i \in 1..Len(t) : t[i] = "="})

Effective(a) ==
    LET t == Trimmed(LineAt(a))
    IN  t # <<>> /\ t[1] # "#" /\ \E i \in 1..Len(t) : t[i] = "="

KeyOf(a) ==
    LET t == Trimmed(LineAt(a)) IN Trimmed(SubSeq(t, 1, FirstEq(t) - 1))

ValueOf(a) ==
    LET t == Trimmed(LineAt(a)) IN Trimmed(SubSeq(t, FirstEq(t) + 1, Len(t)))

EffectiveLines == {a \in LineStarts : Effective(a)}

NamedKeys == {KeyOf(a) : a \in EffectiveLines}

LastLineOf(k) == Max({a \in EffectiveLines : KeyOf(a) = k})

---------------------------------------------------------------------------
(* C4 as stated: after load_env() has returned, every effective line's KEY  *)
(* is mapped by the environment to that line's VALUE.                       *)
C4_EveryLineMapped ==
    envLoaded =>
        \A a \in EffectiveLines :
            KeyOf(a) \in DOMAIN env /\ env[KeyOf(a)] = ValueOf(a)

(* C4 amended: after load_env() has returned, every effective line that no  *)
(* later effective line with the same KEY follows has its KEY mapped to its *)
(* VALUE (the text after the first "=", trimmed).                           *)
C4_LastLineOfKeyMapped ==
    envLoaded =>
        \A a \in EffectiveLines :
            (\A b \in EffectiveLines : b > a => KeyOf(b) # KeyOf(a)) =>
                KeyOf(a) \in DOMAIN env /\ env[KeyOf(a)] = ValueOf(a)

C4_Witness ==
    /\ envLoaded /\ pc = "loaded"
    /\ \E a \in EffectiveLines :
          /\ \E i \in 1..Len(ValueOf(a)) : ValueOf(a)[i] = "="
          /\ Trimmed(LineAt(a)) # LineAt(a)
          /\ env[KeyOf(a)] = ValueOf(a)

---------------------------------------------------------------------------
(* C5: after load_env() has returned the environment is the inherited one   *)
(* overridden by the file: a key named by an effective line holds the value *)
(* of the last such line, every other key is as inherited and no key is     *)
(* added or removed besides.  Blank lines, "#" lines and lines without "="  *)
(* name no key: whether load_env() returns or not, a key no effective line  *)
(* names is as inherited.                                                   *)
C5_FileOverridesInherited ==
    /\ envLoaded =>
          env = [k \in DOMAIN env0 \cup NamedKeys |->
                    IF k \in NamedKeys THEN ValueOf(LastLineOf(k)) ELSE env0[k]]
    /\ \A k \in (DOMAIN env \cup DOMAIN env0) \ NamedKeys :
          k \in DOMAIN env /\ k \in DOMAIN env0 /\ env[k] = env0[k]

C5_Witness ==
    /\ envLoaded /\ pc = "loaded"
    /\ <<"A">> \in DOMAIN env0 /\ env[<<"A">>] # env0[<<"A">>]
    /\ env[<<"HOME">>] = env0[<<"HOME">>]
    /\ \E a \in LineStarts :
          /\ ~Effective(a)
          /\ Trimmed(LineAt(a)) # <<>> /\ Trimmed(LineAt(a))[1] = "#"
          /\ \E i \in 1..Len(LineAt(a)) : LineAt(a)[i] = "="

====
